---- MODULE Spec2Model ----
(***************************************************************************)
(* Model of DataMergeUtils (plugins/module_utils/data_merge_utils.py): the *)
(* recursive merge of a `current` structure with an `expected` structure   *)
(* under merge_type identic / present / absent and list_diff_type value /  *)
(* index.                                                                  *)
(*                                                                         *)
(* A Python value is a record                                              *)
(*    [kind, sc, keys, vals, own, path]                                    *)
(* kind is "null" (None), "scalar", "seq" (list) or "map" (dict); sc is    *)
(* the payload of a scalar; vals are the elements of a list or the values  *)
(* of a dict, and keys the keys of a dict in insertion order (dict         *)
(* iteration order).  own/path name the Python object a container is:      *)
(* "cur"/"exp" + the path from the root of the operand it was passed in,   *)
(* or "new" for an object allocated during the call.  Two containers that  *)
(* carry the same own/path other than "new" are the same object.           *)
(* A raised exception is a record of the same shape whose kind is the      *)
(* exception class.                                                        *)
(*                                                                         *)
(* SpecFile adds the runs of the toml_file module                          *)
(* (plugins/modules/files/toml_file.py): __load_result_data__ reads the    *)
(* file at path, __run__ merges its content with the supplied value.  The  *)
(* files are well-formed TOML documents, missing or white space only.      *)
(***************************************************************************)
EXTENDS Integers, Sequences, FiniteSets, TLC

VARIABLES merge_type, list_diff_type, current, expected, result, pc, last_error,
          dest, diff_on_value, result_data, changed

\* the state of a run of the toml_file module
file_vars == <<dest, diff_on_value, result_data, changed>>

vars == <<merge_type, list_diff_type, current, expected, result, pc, last_error,
          dest, diff_on_value, result_data, changed>>

(* ---------------------------- bounds ----------------------------------- *)
\* longest list and largest dict a caller passes
MaxLen == 2

(* ---------------------------- values ----------------------------------- *)
NoPath == <<>>

Null == [kind |-> "null", sc |-> 0, keys |-> <<>>, vals |-> <<>>, own |-> "none", path |-> NoPath]

Scalar(n) == [kind |-> "scalar", sc |-> n, keys |-> <<>>, vals |-> <<>>, own |-> "none", path |-> NoPath]

List(vs) == [kind |-> "seq", sc |-> 0, keys |-> <<>>, vals |-> vs, own |-> "new", path |-> NoPath]

Dict(ks, vs) == [kind |-> "map", sc |-> 0, keys |-> ks, vals |-> vs, own |-> "new", path |-> NoPath]

\* a raised exception, as the outcome of a call
Raise(cls) == [kind |-> cls, sc |-> 0, keys |-> <<>>, vals |-> <<>>, own |-> "none", path |-> NoPath]

\* the placeholder held by current / expected / result while no call is made
NoValue == [kind |-> "novalue", sc |-> 0, keys |-> <<>>, vals |-> <<>>, own |-> "none", path |-> NoPath]

ErrorKinds == {"KeyError", "TypeError", "AttributeError"}

IsErr(v) == v.kind \in ErrorKinds

\* isinstance(v, (dict, list))
IsContainer(v) == v.kind \in {"seq", "map"}

\* isinstance(current, type(expected)): list, dict, NoneType and the scalar
\* type are four unrelated classes
IsInstanceOfType(c, e) == c.kind = e.kind

RECURSIVE DeepEq(_, _)
\* Python ==: lists compare element by element in order, dicts compare as
\* key -> value mappings whatever their insertion order, a list never equals
\* a dict, None equals only None.
DeepEq(a, b) ==
    IF a.kind # b.kind THEN FALSE
    ELSE IF a.kind = "scalar" THEN a.sc = b.sc
    ELSE IF a.kind = "seq" THEN
        /\ Len(a.vals) = Len(b.vals)
        /\ \A i \in DOMAIN a.vals : DeepEq(a.vals[i], b.vals[i])
    ELSE IF a.kind = "map" THEN
        /\ Len(a.keys) = Len(b.keys)
        /\ \A i \in DOMAIN a.keys :
              \E j \in DOMAIN b.keys :
                  /\ b.keys[j] = a.keys[i]
                  /\ DeepEq(a.vals[i], b.vals[j])
    ELSE TRUE

RECURSIVE Tag(_, _, _)
\* the object graph of an operand: every container of v is the object
\* <<o, path from the root>>
Tag(v, o, p) ==
    IF IsContainer(v)
    THEN [v EXCEPT !.own = o, !.path = p,
                   !.vals = [i \in DOMAIN v.vals |-> Tag(v.vals[i], o, Append(p, i))]]
    ELSE v

RECURSIVE deepcopy(_)
\* copy.deepcopy: every container of the copy is a new object
deepcopy(v) ==
    IF IsContainer(v)
    THEN [v EXCEPT !.own = "new", !.path = NoPath,
                   !.vals = [i \in DOMAIN v.vals |-> deepcopy(v.vals[i])]]
    ELSE v

(* ---------------------------- dict primitives -------------------------- *)
HasKey(d, k) == \E i \in DOMAIN d.keys : d.keys[i] = k

KeyPos(d, k) == CHOOSE i \in DOMAIN d.keys : d.keys[i] = k

\* d.get(k): None when k is missing
dict_get(d, k) == IF HasKey(d, k) THEN d.vals[KeyPos(d, k)] ELSE Null

\* mutant: a new key goes first
dict_setitem_prepends(d, k, v) ==
    IF HasKey(d, k)
    THEN [d EXCEPT !.vals[KeyPos(d, k)] = v]
    ELSE [d EXCEPT !.keys = <<k>> \o d.keys, !.vals = <<v>> \o d.vals]

\* d[k] = v: an existing key keeps its place, a new key goes last
dict_setitem(d, k, v) ==
    IF HasKey(d, k)
    THEN [d EXCEPT !.vals[KeyPos(d, k)] = v]
    ELSE [d EXCEPT !.keys = Append(d.keys, k), !.vals = Append(d.vals, v)]

RemoveAt(s, i) == [j \in 1..(Len(s) - 1) |-> IF j < i THEN s[j] ELSE s[j + 1]]

\* d.pop(k): KeyError when k is missing
dict_pop(d, k) ==
    IF HasKey(d, k)
    THEN [d EXCEPT !.keys = RemoveAt(d.keys, KeyPos(d, k)),
                   !.vals = RemoveAt(d.vals, KeyPos(d, k))]
    ELSE Raise("KeyError")

\* mutant: no element is ever found
list_contains_nothing(l, elem) == FALSE

\* elem in the_list
list_contains(l, elem) == \E i \in DOMAIN l.vals : DeepEq(l.vals[i], elem)

(* ---------------------------- the merge -------------------------------- *)
RECURSIVE get_new_merged_data(_, _)
RECURSIVE get_new_merged_dict(_, _)
RECURSIVE get_new_merged_list(_, _)
RECURSIVE merged_dict_loop(_, _, _, _)

\* the decorator: under identic every decorated method returns a copy of
\* expected and never runs its body; func is what the body, func(self,
\* current, expected), returns otherwise
_check_identic(func, exp) ==
    IF merge_type = "identic" THEN deepcopy(exp) ELSE func

_convert_list_to_dict(the_list) ==
    Dict([i \in DOMAIN the_list.vals |-> i - 1], the_list.vals)

_convert_dict_to_list(the_dict) == List(the_dict.vals)

\* mutant: present puts expected first and appends what current has more
value_diff_expected_first(cur, exp) ==
    IF merge_type = "present"
    THEN LET not_in_expected(elem) == ~list_contains(exp, elem)
         IN  List(exp.vals \o SelectSeq(cur.vals, not_in_expected))
    ELSE IF merge_type = "absent"
    THEN LET not_in_expected(elem) == ~list_contains(exp, elem)
         IN  List(SelectSeq(cur.vals, not_in_expected))
    ELSE Raise("TypeError")

\* mutant: present appends every element of expected, found in current or not
value_diff_no_membership_test(cur, exp) ==
    IF merge_type = "present"
    THEN List(cur.vals \o exp.vals)
    ELSE IF merge_type = "absent"
    THEN LET not_in_expected(elem) == ~list_contains(exp, elem)
         IN  List(SelectSeq(cur.vals, not_in_expected))
    ELSE Raise("TypeError")

\* mutant: absent keeps the elements found in expected (`in` for `not in`)
value_diff_keeps_common(cur, exp) ==
    IF merge_type = "present"
    THEN LET not_in_current(elem) == ~list_contains(cur, elem)
         IN  List(cur.vals \o SelectSeq(exp.vals, not_in_current))
    ELSE IF merge_type = "absent"
    THEN LET in_expected(elem) == list_contains(exp, elem)
         IN  List(SelectSeq(cur.vals, in_expected))
    ELSE Raise("TypeError")

_get_new_merged_list_with_value_diff(cur, exp) ==
    IF merge_type = "present"
    THEN LET not_in_current(elem) == ~list_contains(cur, elem)
         IN  List(cur.vals \o SelectSeq(exp.vals, not_in_current))
    ELSE IF merge_type = "absent"
    THEN LET not_in_expected(elem) == ~list_contains(exp, elem)
         IN  List(SelectSeq(cur.vals, not_in_expected))
    ELSE Raise("TypeError")

_get_new_merged_list_with_index_diff(cur, exp) ==
    LET current_dict == _convert_list_to_dict(cur)
        expected_dict == _convert_list_to_dict(exp)
        merged_dict == get_new_merged_dict(current_dict, expected_dict)
    IN  IF IsErr(merged_dict) THEN merged_dict
        ELSE _convert_dict_to_list(merged_dict)

\* mutant: the index strategy is not recognised
list_body_without_index(cur, exp) ==
    IF list_diff_type = "value" THEN _get_new_merged_list_with_value_diff(cur, exp)
    ELSE Raise("TypeError")

get_new_merged_list_body(cur, exp) ==
    IF list_diff_type = "value" THEN _get_new_merged_list_with_value_diff(cur, exp)
    ELSE IF list_diff_type = "index" THEN _get_new_merged_list_with_index_diff(cur, exp)
    ELSE Raise("TypeError")

get_new_merged_list(cur, exp) == _check_identic(get_new_merged_list_body(cur, exp), exp)

\* mutant: present sets only the keys current lacks (setdefault)
merged_dict_step_setdefault(merged, cur, exp, key) ==
    IF IsContainer(dict_get(exp, key)) /\ IsContainer(dict_get(cur, key))
    THEN LET sub == get_new_merged_data(dict_get(merged, key), dict_get(exp, key))
         IN  IF IsErr(sub) THEN sub ELSE dict_setitem(merged, key, sub)
    ELSE IF merge_type = "present"
    THEN IF dict_get(exp, key).kind = "null" \/ HasKey(merged, key) THEN merged
         ELSE dict_setitem(merged, key, dict_get(exp, key))
    ELSE IF merge_type = "absent"
    THEN IF DeepEq(dict_get(merged, key), dict_get(exp, key))
         THEN dict_pop(merged, key)
         ELSE merged
    ELSE Raise("TypeError")

\* mutant: a key that current lacks is set whatever merge_type is
merged_dict_step_sets_missing(merged, cur, exp, key) ==
    IF IsContainer(dict_get(exp, key)) /\ IsContainer(dict_get(cur, key))
    THEN LET sub == get_new_merged_data(dict_get(merged, key), dict_get(exp, key))
         IN  IF IsErr(sub) THEN sub ELSE dict_setitem(merged, key, sub)
    ELSE IF merge_type = "present" \/ ~HasKey(merged, key)
    THEN IF dict_get(exp, key).kind = "null" THEN merged
         ELSE dict_setitem(merged, key, dict_get(exp, key))
    ELSE IF merge_type = "absent"
    THEN IF DeepEq(dict_get(merged, key), dict_get(exp, key))
         THEN dict_pop(merged, key)
         ELSE merged
    ELSE Raise("TypeError")

\* mutant: two containers are not merged, expected's replaces current's
merged_dict_step_no_recursion(merged, cur, exp, key) ==
    IF IsContainer(dict_get(exp, key)) /\ IsContainer(dict_get(cur, key))
    THEN dict_setitem(merged, key, dict_get(exp, key))
    ELSE IF merge_type = "present"
    THEN IF dict_get(exp, key).kind = "null" THEN merged
         ELSE dict_setitem(merged, key, dict_get(exp, key))
    ELSE IF merge_type = "absent"
    THEN IF DeepEq(dict_get(merged, key), dict_get(exp, key))
         THEN dict_pop(merged, key)
         ELSE merged
    ELSE Raise("TypeError")

\* mutant: present assigns None like any other value (no `continue`)
merged_dict_step_assigns_none(merged, cur, exp, key) ==
    IF IsContainer(dict_get(exp, key)) /\ IsContainer(dict_get(cur, key))
    THEN LET sub == get_new_merged_data(dict_get(merged, key), dict_get(exp, key))
         IN  IF IsErr(sub) THEN sub ELSE dict_setitem(merged, key, sub)
    ELSE IF merge_type = "present"
    THEN dict_setitem(merged, key, dict_get(exp, key))
    ELSE IF merge_type = "absent"
    THEN IF DeepEq(dict_get(merged, key), dict_get(exp, key))
         THEN dict_pop(merged, key)
         ELSE merged
    ELSE Raise("TypeError")

\* mutant: absent drops a key whose two containers merge into an empty one
merged_dict_step_pops_empty(merged, cur, exp, key) ==
    IF IsContainer(dict_get(exp, key)) /\ IsContainer(dict_get(cur, key))
    THEN LET sub == get_new_merged_data(dict_get(merged, key), dict_get(exp, key))
         IN  IF IsErr(sub) THEN sub
             ELSE IF merge_type = "absent" /\ Len(sub.vals) = 0
             THEN dict_pop(merged, key)
             ELSE dict_setitem(merged, key, sub)
    ELSE IF merge_type = "present"
    THEN IF dict_get(exp, key).kind = "null" THEN merged
         ELSE dict_setitem(merged, key, dict_get(exp, key))
    ELSE IF merge_type = "absent"
    THEN IF DeepEq(dict_get(merged, key), dict_get(exp, key))
         THEN dict_pop(merged, key)
         ELSE merged
    ELSE Raise("TypeError")

\* one turn of `for key in expected.keys()`
merged_dict_step(merged, cur, exp, key) ==
    IF IsContainer(dict_get(exp, key)) /\ IsContainer(dict_get(cur, key))
    THEN LET sub == get_new_merged_data(dict_get(merged, key), dict_get(exp, key))
         IN  IF IsErr(sub) THEN sub ELSE dict_setitem(merged, key, sub)
    ELSE IF merge_type = "present"
    THEN IF dict_get(exp, key).kind = "null" THEN merged
         ELSE dict_setitem(merged, key, dict_get(exp, key))
    ELSE IF merge_type = "absent"
    THEN IF DeepEq(dict_get(merged, key), dict_get(exp, key))
         THEN dict_pop(merged, key)
         ELSE merged
    ELSE Raise("TypeError")

\* the loop over expected.keys() from its i-th key on; an exception ends it
merged_dict_loop(merged, cur, exp, i) ==
    IF i > Len(exp.keys) THEN merged
    ELSE LET m == merged_dict_step(merged, cur, exp, exp.keys[i])
         IN  IF IsErr(m) THEN m ELSE merged_dict_loop(m, cur, exp, i + 1)

\* mutant: merged is current itself (`merged = current`)
merged_alias(cur) == cur

\* mutant: merged starts as an empty dict (`merged = {}`)
merged_fresh(cur) == Dict(<<>>, <<>>)

\* merged = copy.deepcopy(current): the object the loop writes into
merged_copy(cur) == deepcopy(cur)

get_new_merged_dict_body(cur, exp) ==
    IF exp.kind # "map" THEN Raise("AttributeError")
    ELSE merged_dict_loop(merged_copy(cur), cur, exp, 1)

get_new_merged_dict(cur, exp) == _check_identic(get_new_merged_dict_body(cur, exp), exp)

\* mutant: the two sides of a mismatch are swapped
mismatch_sides_swapped(cur, exp) ==
    IF ~IsInstanceOfType(cur, exp)
    THEN IF merge_type = "present" THEN deepcopy(cur)
         ELSE IF merge_type = "absent" THEN deepcopy(exp)
         ELSE Raise("TypeError")
    ELSE IF cur.kind = "seq" THEN get_new_merged_list(cur, exp)
    ELSE get_new_merged_dict(cur, exp)

get_new_merged_data_body(cur, exp) ==
    IF ~IsInstanceOfType(cur, exp)
    THEN IF merge_type = "present" THEN deepcopy(exp)
         ELSE IF merge_type = "absent" THEN deepcopy(cur)
         ELSE Raise("TypeError")
    ELSE IF cur.kind = "seq" THEN get_new_merged_list(cur, exp)
    ELSE get_new_merged_dict(cur, exp)

\* mutant: the method without its decorator
get_new_merged_data_undecorated(cur, exp) == get_new_merged_data_body(cur, exp)

get_new_merged_data(cur, exp) == _check_identic(get_new_merged_data_body(cur, exp), exp)

(* ---------------------------- inputs ----------------------------------- *)
MergeTypes == {"identic", "present", "absent"}

ListDiffTypes == {"value", "index"}

\* a value outside both enumerations
OtherChoice == "other"

\* The code only compares scalars and keys for equality, so two of each are
\* enough to tell "equal" from "different".
Scalars == {Scalar(1), Scalar(2)}

Leaves == Scalars \cup {Null}

DictKeys == {1, 2}

\* the keys of K in ascending order
SortedKeys(K) ==
    CHOOSE s \in [1..Cardinality(K) -> K] :
        \A i, j \in 1..Cardinality(K) : i < j => s[i] < s[j]

\* the lists of at most n elements of E
ListsOver(E, n) == {List(s) : s \in UNION {[1..m -> E] : m \in 0..n}}

\* the dicts of at most n keys with values in E
DictsOver(E, n) ==
    UNION {{Dict(SortedKeys(K), vs) : vs \in [1..Cardinality(K) -> E]} :
           K \in {K \in SUBSET DictKeys : Cardinality(K) <= n}}

\* containers of scalars and None
Flat == ListsOver(Leaves, MaxLen) \cup DictsOver(Leaves, MaxLen)

\* the containers found inside a container: empty, or holding one scalar or
\* None
Inner ==
    {List(<<>>), Dict(<<>>, <<>>)}
        \cup {List(<<v>>) : v \in Leaves}
        \cup {Dict(<<k>>, <<v>>) : k \in DictKeys, v \in Leaves}

\* a container of scalars one of whose elements is replaced by a container
Nested ==
    {[f EXCEPT !.vals[i] = c] : <<f, i, c>> \in
        UNION {{<<f, i, c>> : i \in DOMAIN f.vals, c \in Inner} :
               f \in ListsOver(Scalars, MaxLen) \cup DictsOver(Scalars, MaxLen)}}

\* the values a caller passes as current or expected
Values == Leaves \cup Flat \cup Nested

(* ---------------------------- object graph ----------------------------- *)
RECURSIVE Paths(_)
\* the positions of the containers of v
Paths(v) ==
    IF IsContainer(v)
    THEN {<<>>} \cup UNION {{<<i>> \o q : q \in Paths(v.vals[i])} : i \in DOMAIN v.vals}
    ELSE {}

RECURSIVE NodeAt(_, _)
NodeAt(v, p) == IF p = <<>> THEN v ELSE NodeAt(v.vals[Head(p)], Tail(p))

\* a value no input holds
Marker == Scalar(0)

\* an in-place mutation of one container: the_list.append(marker),
\* the_dict[1] = marker
Poke(node) ==
    IF node.kind = "seq" THEN [node EXCEPT !.vals = Append(node.vals, Marker)]
    ELSE dict_setitem(node, 1, Marker)

RECURSIVE Rebind(_, _, _, _)
\* v once the object <<o, p>> has become node: every reference to that
\* object sees the new content
Rebind(v, o, p, node) ==
    IF ~IsContainer(v) THEN v
    ELSE IF v.own = o /\ v.path = p THEN node
    ELSE [v EXCEPT !.vals = [i \in DOMAIN v.vals |-> Rebind(v.vals[i], o, p, node)]]

RECURSIVE PokeAt(_, _)
\* v once the container at position p has been mutated in place
PokeAt(v, p) ==
    IF p = <<>> THEN Poke(v)
    ELSE [v EXCEPT !.vals[Head(p)] = PokeAt(v.vals[Head(p)], Tail(p))]

(* ---------------------------- toml_file -------------------------------- *)
\* A text is a sequence of lines.  A line is a record [key, val, ws]: white
\* space ws (key = 0), or the entry `key = val` of a TOML document (a table
\* `[key]` with its entries counts as one line).
BlankLine(ws) == [key |-> 0, val |-> Null, ws |-> ws]

EntryLine(k, v) == [key |-> k, val |-> v, ws |-> ""]

\* the string ''
EmptyString == BlankLine("")

\* what open(self.vars.path) finds: no file, or a file with its lines
NoFile == [exists |-> FALSE, lines |-> <<>>]

File(lines) == [exists |-> TRUE, lines |-> lines]

\* content = file.readlines(), content = [] on FileNotFoundError
readlines(f) == IF f.exists THEN f.lines ELSE <<>>

\* ''.join(content).strip() == ''
strip_is_empty(content) == \A i \in DOMAIN content : content[i].key = 0

\* the <<key, value>> pairs of a dict, in insertion order
dict_items(d) == [i \in DOMAIN d.keys |-> <<d.keys[i], d.vals[i]>>]

RECURSIVE toml_dumps(_)
RECURSIVE toml_value(_)
\* the text of a value inside a document
toml_value(v) ==
    IF v.kind = "map"
    THEN LET lines == toml_dumps(v)
         IN  Dict([i \in DOMAIN lines |-> lines[i].key], [i \in DOMAIN lines |-> lines[i].val])
    ELSE IF v.kind = "seq"
    THEN List([i \in DOMAIN v.vals |-> toml_value(v.vals[i])])
    ELSE v

\* toml.dumps(d).splitlines(keepends=True): TOML has no null, so a key that
\* holds None is left out; the plain entries come first and the tables
\* (dict values) after them
toml_dumps(d) ==
    LET plain(item) == item[2].kind \notin {"null", "map"}
        table(item) == item[2].kind = "map"
        items == SelectSeq(dict_items(d), plain) \o SelectSeq(dict_items(d), table)
    IN  [i \in DOMAIN items |-> EntryLine(items[i][1], toml_value(items[i][2]))]

\* toml.loads(''.join(content)): white space is skipped, '' is the empty
\* document
toml_loads(content) ==
    LET entry(line) == line.key # 0
        entries == SelectSeq(content, entry)
    IN  Dict([i \in DOMAIN entries |-> entries[i].key],
             [i \in DOMAIN entries |-> entries[i].val])

\* self.vars[self.var_result_data]: the data of the file when diff_on_value
\* is set, its lines otherwise
NoData == [loaded |-> FALSE, data |-> NoValue, lines |-> <<>>]

ResultData(d) == [loaded |-> TRUE, data |-> d, lines |-> <<>>]

ResultLines(ls) == [loaded |-> TRUE, data |-> NoValue, lines |-> ls]

RECURSIVE HoldsNoneInList(_)
\* v holds a list one of whose elements is None
HoldsNoneInList(v) ==
    /\ IsContainer(v)
    /\ \E i \in DOMAIN v.vals :
          \/ v.kind = "seq" /\ v.vals[i].kind = "null"
          \/ HoldsNoneInList(v.vals[i])

\* value=dict(type='dict', required=True): the dicts a playbook supplies;
\* TOML arrays hold no null
ModuleValues == {v \in Flat \cup Nested : v.kind = "map" /\ ~HoldsNoneInList(v)}

\* files of white space only
BlankFiles ==
    {File(<<>>), File(<<BlankLine("\n")>>),
     File(<<BlankLine("\n"), BlankLine("\t\n"), BlankLine("   ")>>)}

\* well-formed TOML documents, as toml.dumps writes them or followed by an
\* empty line
TomlFiles ==
    {File(toml_dumps(v)) : v \in ModuleValues}
        \cup {File(toml_dumps(v) \o <<BlankLine("\n")>>) : v \in ModuleValues}

Files == {NoFile} \cup BlankFiles \cup TomlFiles

(* ---------------------------- state machine ---------------------------- *)
\* DataMergeUtils(merge_type, list_diff_type): merge_type goes through its
\* setter, list_diff_type is stored as given
Init ==
    /\ merge_type \in MergeTypes
    /\ list_diff_type \in ListDiffTypes \cup {OtherChoice}
    /\ current = NoValue
    /\ expected = NoValue
    /\ result = NoValue
    /\ pc = "idle"
    /\ last_error = "none"
    /\ dest = NoFile
    /\ diff_on_value = TRUE
    /\ result_data = NoData
    /\ changed = FALSE

\* merge_type.setter: a value outside the enumeration raises ValueError and
\* leaves the field as it was
merge_type_setter(value) ==
    /\ pc = "idle"
    /\ IF value \notin MergeTypes
       THEN /\ last_error' = "ValueError"
            /\ pc' = "rejected"
            /\ UNCHANGED merge_type
       ELSE /\ merge_type' = value
            /\ UNCHANGED <<last_error, pc>>
    /\ UNCHANGED <<list_diff_type, current, expected, result, file_vars>>

\* list_diff_type.setter
list_diff_type_setter(value) ==
    /\ pc = "idle"
    /\ IF value \notin ListDiffTypes
       THEN /\ last_error' = "ValueError"
            /\ pc' = "rejected"
            /\ UNCHANGED list_diff_type
       ELSE /\ list_diff_type' = value
            /\ UNCHANGED <<last_error, pc>>
    /\ UNCHANGED <<merge_type, current, expected, result, file_vars>>

\* a caller's merge_util.get_new_merged_data(c, e)
Call ==
    /\ pc = "idle"
    /\ \E c \in Values, e \in Values :
          /\ current' = Tag(c, "cur", NoPath)
          /\ expected' = Tag(e, "exp", NoPath)
          /\ result' = get_new_merged_data(Tag(c, "cur", NoPath), Tag(e, "exp", NoPath))
    /\ pc' = IF IsErr(result') THEN "raised" ELSE "returned"
    /\ last_error' = IF IsErr(result') THEN result'.kind ELSE "none"
    /\ UNCHANGED <<merge_type, list_diff_type, file_vars>>

\* after the call the caller mutates, in place, a container reachable from
\* current
MutateCurrent(p) ==
    /\ pc = "returned"
    /\ current' = PokeAt(current, p)
    /\ result' = Rebind(result, "cur", p, Poke(NodeAt(current, p)))
    /\ expected' = Rebind(expected, "cur", p, Poke(NodeAt(current, p)))
    /\ pc' = "mutated_current"
    /\ UNCHANGED <<merge_type, list_diff_type, last_error, file_vars>>

\* ... or a container reachable from expected
MutateExpected(p) ==
    /\ pc = "returned"
    /\ expected' = PokeAt(expected, p)
    /\ result' = Rebind(result, "exp", p, Poke(NodeAt(expected, p)))
    /\ current' = Rebind(current, "exp", p, Poke(NodeAt(expected, p)))
    /\ pc' = "mutated_expected"
    /\ UNCHANGED <<merge_type, list_diff_type, last_error, file_vars>>

\* ... or a container reachable from the result
MutateResult(p) ==
    /\ pc = "returned"
    /\ LET node == NodeAt(result, p)
       IN  IF node.own = "new"
           THEN /\ result' = PokeAt(result, p)
                /\ UNCHANGED <<current, expected>>
           ELSE /\ result' = Rebind(result, node.own, node.path, Poke(node))
                /\ current' = Rebind(current, node.own, node.path, Poke(node))
                /\ expected' = Rebind(expected, node.own, node.path, Poke(node))
    /\ pc' = "mutated_result"
    /\ UNCHANGED <<merge_type, list_diff_type, last_error, file_vars>>

\* the caller handles the outcome and drops the operands and the result
Release ==
    /\ pc # "idle"
    /\ current' = NoValue
    /\ expected' = NoValue
    /\ result' = NoValue
    /\ pc' = "idle"
    /\ last_error' = "none"
    /\ dest' = NoFile
    /\ diff_on_value' = TRUE
    /\ result_data' = NoData
    /\ changed' = FALSE
    /\ UNCHANGED <<merge_type, list_diff_type>>

\* TomlFile.__load_result_data__, for a module whose state and
\* list_diff_type arguments are the configuration of the engine (the
\* argument_spec admits the enumerated choices only)
__load_result_data__ ==
    /\ pc = "idle"
    /\ list_diff_type \in ListDiffTypes
    /\ \E f \in Files, dov \in BOOLEAN :
          LET content == IF strip_is_empty(readlines(f)) THEN <<EmptyString>>
                         ELSE readlines(f)
          IN  /\ dest' = f
              /\ diff_on_value' = dov
              /\ result_data' = IF dov THEN ResultData(toml_loads(content))
                                 ELSE ResultLines(content)
    /\ changed' = FALSE
    /\ pc' = "loaded"
    /\ UNCHANGED <<merge_type, list_diff_type, current, expected, result, last_error>>

\* TomlFile._get_current
_get_current ==
    IF diff_on_value THEN result_data.data ELSE toml_loads(result_data.lines)

\* mutant: the result is stored as data whatever diff_on_value is
_set_result_as_data(res) == ResultData(res)

\* TomlFile._set_result
_set_result(res) ==
    IF diff_on_value THEN ResultData(res) ELSE ResultLines(toml_dumps(res))

\* the characters of a text
text_of(lines) == LET nonempty(line) == line # EmptyString IN SelectSeq(lines, nonempty)

\* whether the run changes the file: the data (diff_on_value) or the text
\* to write differs from what was loaded
has_changed(loaded, final) ==
    IF diff_on_value THEN ~DeepEq(loaded.data, final.data)
    ELSE text_of(loaded.lines) # text_of(final.lines)

\* TomlFile.__run__ with the supplied value; an exception of the merge
\* leaves the loaded data as it is
__run__ ==
    /\ pc = "loaded"
    /\ \E v \in ModuleValues :
          /\ current' = Tag(_get_current, "cur", NoPath)
          /\ expected' = Tag(v, "exp", NoPath)
          /\ result' = get_new_merged_data(Tag(_get_current, "cur", NoPath), Tag(v, "exp", NoPath))
    /\ pc' = IF IsErr(result') THEN "raised" ELSE "returned"
    /\ last_error' = IF IsErr(result') THEN result'.kind ELSE "none"
    /\ result_data' = IF IsErr(result') THEN result_data ELSE _set_result(result')
    /\ changed' = has_changed(result_data, result_data')
    /\ UNCHANGED <<merge_type, list_diff_type, dest, diff_on_value>>

Next ==
    \/ \E value \in MergeTypes \cup {OtherChoice} : merge_type_setter(value)
    \/ \E value \in ListDiffTypes \cup {OtherChoice} : list_diff_type_setter(value)
    \/ Call
    \/ Release

Spec == Init /\ [][Next]_vars

\* the same engine with a caller that mutates its data after the call
NextMutate ==
    \/ Next
    \/ \E p \in Paths(current) : MutateCurrent(p)
    \/ \E p \in Paths(expected) : MutateExpected(p)
    \/ \E p \in Paths(result) : MutateResult(p)

SpecMutate == Init /\ [][NextMutate]_vars

\* the engine together with runs of the toml_file module
NextFile ==
    \/ Next
    \/ __load_result_data__
    \/ __run__

SpecFile == Init /\ [][NextFile]_vars

(* ---------------------------- properties ------------------------------- *)
\* the call has ended, with a result or with an exception
Finished == pc \in {"returned", "raised"}

KeysOf(d) == {d.keys[i] : i \in DOMAIN d.keys}

BothDicts == current.kind = "map" /\ expected.kind = "map"

BothLists == current.kind = "seq" /\ expected.kind = "seq"

\* list_diff_type is one of the two list strategies
ListStrategyGiven == list_diff_type \in ListDiffTypes

\* C1: under identic the call returns a value equal to expected, whatever
\* current is (any kind, same as expected's or not) and whatever
\* list_diff_type holds.
C1_IdenticReturnsExpected ==
    (Finished /\ merge_type = "identic") =>
        /\ pc = "returned"
        /\ DeepEq(result, expected)

\* C1 witness: identic returned a dict although current was a list
C1_Witness ==
    /\ pc = "returned"
    /\ merge_type = "identic"
    /\ list_diff_type = "index"
    /\ current.kind = "seq"
    /\ Len(current.vals) > 0
    /\ expected.kind = "map"
    /\ \E i \in DOMAIN expected.vals : IsContainer(expected.vals[i])
    /\ DeepEq(result, expected)

\* C2: under present, for dicts current and expected, every key of current
\* is a key of the result, and every key of expected whose value is a scalar
\* (neither None nor a container) has expected's value in the result.
C2_PresentInflationary ==
    (Finished /\ merge_type = "present" /\ ListStrategyGiven /\ BothDicts) =>
        /\ pc = "returned"
        /\ result.kind = "map"
        /\ \A k \in KeysOf(current) : HasKey(result, k)
        /\ \A k \in KeysOf(expected) :
              dict_get(expected, k).kind = "scalar" =>
                  /\ HasKey(result, k)
                  /\ DeepEq(dict_get(result, k), dict_get(expected, k))

\* C2 witness: one scalar of expected replaced a container of current, a
\* second one created a key, and a key of current that expected does not
\* name is still there
C2_Witness ==
    /\ pc = "returned"
    /\ merge_type = "present"
    /\ ListStrategyGiven
    /\ BothDicts
    /\ \E k \in KeysOf(expected) :
          /\ dict_get(expected, k).kind = "scalar"
          /\ IsContainer(dict_get(current, k))
          /\ DeepEq(dict_get(result, k), dict_get(expected, k))
    /\ \E k \in KeysOf(expected) :
          /\ dict_get(expected, k).kind = "scalar"
          /\ ~HasKey(current, k)
          /\ HasKey(result, k)

RECURSIVE KeysWithin(_, _)
\* the keys of r are keys of c, and so on in the dicts they both hold under
\* a key
KeysWithin(r, c) ==
    (r.kind = "map" /\ c.kind = "map") =>
        \A k \in KeysOf(r) :
            /\ HasKey(c, k)
            /\ KeysWithin(dict_get(r, k), dict_get(c, k))

\* C3: under absent, for dicts current and expected, the keys of a returned
\* result are keys of current, and the same holds of every dict nested in
\* the result against the dict under the same keys in current.
C3_AbsentNoNewKeys ==
    (pc = "returned" /\ merge_type = "absent" /\ ListStrategyGiven /\ BothDicts) =>
        /\ result.kind = "map"
        /\ KeysWithin(result, current)

\* C3 witness: absent emptied or shrank a nested dict that expected names
C3_Witness ==
    /\ pc = "returned"
    /\ merge_type = "absent"
    /\ BothDicts
    /\ \E k \in KeysOf(expected) :
          /\ dict_get(current, k).kind = "map"
          /\ dict_get(expected, k).kind = "map"
          /\ HasKey(result, k)
          /\ Len(dict_get(result, k).keys) < Len(dict_get(current, k).keys)
    /\ \E k \in KeysOf(expected) : ~HasKey(current, k) /\ ~HasKey(result, k)

\* C4: under absent, for every key k of expected whose two values are not
\* both containers: the call returns; if current holds k with a value equal
\* to expected[k] the result has no k; otherwise (another value, or no k in
\* current, None in expected included) the result has for k what current has.
C4_AbsentRemovesEqual ==
    (Finished /\ merge_type = "absent" /\ ListStrategyGiven /\ BothDicts) =>
        /\ pc = "returned"
        /\ \A k \in KeysOf(expected) :
              ~(IsContainer(dict_get(expected, k)) /\ IsContainer(dict_get(current, k))) =>
                  IF HasKey(current, k) /\ DeepEq(dict_get(current, k), dict_get(expected, k))
                  THEN ~HasKey(result, k)
                  ELSE /\ HasKey(result, k) <=> HasKey(current, k)
                       /\ DeepEq(dict_get(result, k), dict_get(current, k))

\* a list of scalars and None
LeavesOnly(l) == \A i \in DOMAIN l.vals : ~IsContainer(l.vals[i])

\* expected.vals[i] equals no element of current
MissingFromCurrent(i) == \A j \in DOMAIN current.vals : ~DeepEq(current.vals[j], expected.vals[i])

\* current.vals[i] equals no element of expected
MissingFromExpected(i) == \A j \in DOMAIN expected.vals : ~DeepEq(expected.vals[j], current.vals[i])

\* C5: under present by value, for lists current and expected, the result
\* is current, element for element, followed by the elements of expected
\* that equal no element of current, in expected's order and as many times
\* as expected holds them.
C5_ValuePresentAppends ==
    (Finished /\ merge_type = "present" /\ list_diff_type = "value" /\ BothLists) =>
        LET added == {i \in DOMAIN expected.vals : MissingFromCurrent(i)}
            place(i) == Len(current.vals) + Cardinality({j \in added : j <= i})
        IN  /\ pc = "returned"
            /\ result.kind = "seq"
            /\ Len(result.vals) = Len(current.vals) + Cardinality(added)
            /\ \A i \in DOMAIN current.vals : DeepEq(result.vals[i], current.vals[i])
            /\ \A i \in added : DeepEq(result.vals[place(i)], expected.vals[i])

\* C5 witness: an element that expected holds twice and current lacks was
\* appended twice after a non-empty current
C5_Witness ==
    /\ pc = "returned"
    /\ merge_type = "present"
    /\ list_diff_type = "value"
    /\ BothLists
    /\ Len(current.vals) > 0
    /\ Len(expected.vals) = 2
    /\ DeepEq(expected.vals[1], expected.vals[2])
    /\ MissingFromCurrent(1)
    /\ Len(result.vals) = Len(current.vals) + 2

\* C6: under absent by value, for lists current and expected, the result is
\* the elements of current that equal no element of expected, in current's
\* order; an element is kept whole or dropped, never merged.
C6_ValueAbsentFilters ==
    (Finished /\ merge_type = "absent" /\ list_diff_type = "value" /\ BothLists) =>
        LET kept == {i \in DOMAIN current.vals : MissingFromExpected(i)}
            place(i) == Cardinality({j \in kept : j <= i})
        IN  /\ pc = "returned"
            /\ result.kind = "seq"
            /\ Len(result.vals) = Cardinality(kept)
            /\ \A i \in kept : DeepEq(result.vals[place(i)], current.vals[i])

\* C6 witness: one element of current was dropped and a non-empty container
\* of current was kept although expected holds a non-empty container of the
\* same kind
C6_Witness ==
    /\ pc = "returned"
    /\ merge_type = "absent"
    /\ list_diff_type = "value"
    /\ BothLists
    /\ Len(current.vals) = 2
    /\ Len(result.vals) = 1
    /\ IsContainer(result.vals[1])
    /\ Len(result.vals[1].vals) > 0
    /\ \E j \in DOMAIN expected.vals :
          /\ expected.vals[j].kind = result.vals[1].kind
          /\ Len(expected.vals[j].vals) > 0

\* C7: under present by index, for lists of scalars and None: for every
\* position i of expected, None in expected leaves current's element at i
\* (when current has one), anything else is the element of the result at i;
\* the positions of current past the end of expected keep their element.
C7_IndexPresentPositional ==
    (Finished /\ merge_type = "present" /\ list_diff_type = "index" /\ BothLists
        /\ LeavesOnly(current) /\ LeavesOnly(expected)) =>
        /\ pc = "returned"
        /\ result.kind = "seq"
        /\ \A i \in DOMAIN expected.vals :
              IF expected.vals[i].kind = "null"
              THEN i <= Len(current.vals) =>
                      /\ i <= Len(result.vals)
                      /\ DeepEq(result.vals[i], current.vals[i])
              ELSE /\ i <= Len(result.vals)
                   /\ DeepEq(result.vals[i], expected.vals[i])
        /\ \A i \in DOMAIN current.vals :
              i > Len(expected.vals) =>
                  /\ i <= Len(result.vals)
                  /\ DeepEq(result.vals[i], current.vals[i])

\* C8: under absent by index, for a list current of scalars and a list
\* expected of scalars and None, the call returns exactly the elements of
\* current at the positions that expected does not reach or where it holds
\* another value, in their order and without gaps.
C8_IndexAbsentCompacts ==
    (Finished /\ merge_type = "absent" /\ list_diff_type = "index" /\ BothLists
        /\ (\A i \in DOMAIN current.vals : current.vals[i].kind = "scalar")
        /\ LeavesOnly(expected)) =>
        LET kept == {i \in DOMAIN current.vals :
                        i > Len(expected.vals) \/ ~DeepEq(current.vals[i], expected.vals[i])}
            place(i) == Cardinality({j \in kept : j <= i})
        IN  /\ pc = "returned"
            /\ result.kind = "seq"
            /\ Len(result.vals) = Cardinality(kept)
            /\ \A i \in kept : DeepEq(result.vals[place(i)], current.vals[i])

\* current and expected are two lists or two dicts
SameCompositeKind == BothLists \/ BothDicts

\* the outcome of merging the result with expected once more
MergedAgain == get_new_merged_data(Tag(result, "cur", NoPath), expected)

RECURSIVE SharesObject(_)
\* v holds a container that is an object of current or of expected
SharesObject(v) ==
    /\ IsContainer(v)
    /\ \/ v.own \in {"cur", "exp"}
       \/ \E i \in DOMAIN v.vals : SharesObject(v.vals[i])

\* C10: the result shares no container with current or expected: a later
\* in-place change of a container of an operand leaves the result as it was
\* returned, and a later in-place change of a container of the result
\* leaves both operands as they were.
C10_NoAliasing ==
    [][/\ (pc = "returned" /\ pc' \in {"mutated_current", "mutated_expected"}) =>
              DeepEq(result', result)
       /\ (pc = "returned" /\ pc' = "mutated_result") =>
              /\ DeepEq(current', current)
              /\ DeepEq(expected', expected)]_vars

\* the Python object a container is
ObjectId(v) == <<v.own, v.path>>

RECURSIVE written_data(_, _)
RECURSIVE written_loop(_, _, _, _)

\* the objects whose content the loop of get_new_merged_dict changes in
\* place (merged[key] = ..., merged.pop(key)) from the i-th key of expected
\* on, the nested calls included; an exception ends the loop
written_loop(merged, cur, exp, i) ==
    IF i > Len(exp.keys) THEN {}
    ELSE LET key == exp.keys[i]
             m == merged_dict_step(merged, cur, exp, key)
             nested == IF IsContainer(dict_get(exp, key)) /\ IsContainer(dict_get(cur, key))
                       THEN written_data(dict_get(merged, key), dict_get(exp, key))
                       ELSE {}
             here == IF ~IsErr(m) /\ m # merged THEN {ObjectId(merged)} ELSE {}
         IN  nested \cup here
                \cup (IF IsErr(m) THEN {} ELSE written_loop(m, cur, exp, i + 1))

\* the objects written in place during get_new_merged_dict(cur, exp)
written_dict(cur, exp) ==
    IF merge_type = "identic" \/ exp.kind # "map" THEN {}
    ELSE written_loop(merged_copy(cur), cur, exp, 1)

\* the objects written in place during get_new_merged_data(cur, exp): the
\* dispatcher and the list strategies build new lists and write into no
\* object but the positional dicts of the index strategy
written_data(cur, exp) ==
    IF merge_type = "identic" \/ ~IsInstanceOfType(cur, exp) THEN {}
    ELSE IF cur.kind = "seq"
    THEN IF list_diff_type = "index"
         THEN written_dict(_convert_list_to_dict(cur), _convert_list_to_dict(exp))
         ELSE {}
    ELSE written_dict(cur, exp)

\* every container of v that is an object of an operand holds what the
\* operand holds at that place
OperandObjectsIntact(v) ==
    \A p \in Paths(v) :
        LET n == NodeAt(v, p)
        IN  /\ n.own = "cur" => n = NodeAt(current, n.path)
            /\ n.own = "exp" => n = NodeAt(expected, n.path)

\* C11: a call never mutates its operands, whether it returns or raises:
\* every object it writes into in place is an object it allocated itself,
\* never a container of current or expected, and the containers of the
\* operands that a returned result refers to hold what they held before.
C11_OperandsNotMutated ==
    Finished =>
        /\ \A w \in written_data(current, expected) : w[1] \notin {"cur", "exp"}
        /\ pc = "returned" => OperandObjectsIntact(result)

\* C11 witness: an absent merge of two dicts popped a key and then raised
\* on the next one, and current held a nested container
C11_Witness ==
    /\ pc = "raised"
    /\ merge_type = "absent"
    /\ BothDicts
    /\ written_data(current, expected) # {}
    /\ \E i \in DOMAIN current.vals : IsContainer(current.vals[i])

\* C12: in every state of an engine instance, after construction and after
\* any accepted or rejected assignment, merge_type is one of identic /
\* present / absent and list_diff_type is one of value / index, and no merge
\* fails on a configuration value (TypeError "Unexpected ...").
C12_ConfigurationValid ==
    /\ merge_type \in MergeTypes
    /\ list_diff_type \in ListDiffTypes
    /\ pc = "raised" => last_error # "TypeError"

RECURSIVE MismatchKeepsOneSide(_, _, _)
\* in the dicts r, c, e and in the dicts they hold under a common key: a key
\* of c and e whose two values differ in kind has in r the value of e
\* under present (unless that is None) and the value of c under absent
MismatchKeepsOneSide(r, c, e) ==
    (r.kind = "map" /\ c.kind = "map" /\ e.kind = "map") =>
        \A k \in KeysOf(c) \cap KeysOf(e) :
            LET ck == dict_get(c, k)
                ek == dict_get(e, k)
            IN  /\ (ck.kind # ek.kind /\ merge_type = "present" /\ ek.kind # "null") =>
                      /\ HasKey(r, k)
                      /\ DeepEq(dict_get(r, k), ek)
                /\ (ck.kind # ek.kind /\ merge_type = "absent") =>
                      /\ HasKey(r, k)
                      /\ DeepEq(dict_get(r, k), ck)
                /\ (ck.kind = "map" /\ ek.kind = "map") =>
                      /\ HasKey(r, k)
                      /\ MismatchKeepsOneSide(dict_get(r, k), ck, ek)

\* C13: under present and absent, operands of different kinds (dict, list,
\* scalar, None) never raise: the call returns a value equal to expected
\* under present and to current under absent; and in a returned merge of
\* two dicts, at every depth, a key whose two values differ in kind (a dict
\* against a list included) has expected's value under present, unless
\* that is None, and current's value under absent.
C13_MismatchReturnsOneSide ==
    /\ (Finished /\ merge_type \in {"present", "absent"} /\ current.kind # expected.kind) =>
          /\ pc = "returned"
          /\ merge_type = "present" => DeepEq(result, expected)
          /\ merge_type = "absent" => DeepEq(result, current)
    /\ (pc = "returned" /\ merge_type \in {"present", "absent"} /\ BothDicts) =>
          MismatchKeepsOneSide(result, current, expected)

\* C13 witness: under present a key holding a non-empty list in current and
\* a dict in expected came back with expected's dict
C13_Witness ==
    /\ pc = "returned"
    /\ merge_type = "present"
    /\ BothDicts
    /\ \E k \in KeysOf(current) \cap KeysOf(expected) :
          /\ dict_get(current, k).kind = "seq"
          /\ Len(dict_get(current, k).vals) > 0
          /\ dict_get(expected, k).kind = "map"
          /\ DeepEq(dict_get(result, k), dict_get(expected, k))

\* expected is the dict without keys
ExpectedIsEmptyDict == expected.kind = "map" /\ Len(expected.keys) = 0

\* C14 as claimed: merging x with x under identic returns x, for any x;
\* merging any x with the dict without keys under present returns x.
C14_RoundTrip ==
    /\ (Finished /\ merge_type = "identic" /\ DeepEq(current, expected)) =>
          /\ pc = "returned"
          /\ DeepEq(result, current)
    /\ (Finished /\ merge_type = "present" /\ ExpectedIsEmptyDict) =>
          /\ pc = "returned"
          /\ DeepEq(result, current)

\* C14 amended: merging x with x under identic returns x, for any x;
\* merging a dict x with the dict without keys under present returns x,
\* whatever list_diff_type holds.
C14_RoundTripOfDicts ==
    /\ (Finished /\ merge_type = "identic" /\ DeepEq(current, expected)) =>
          /\ pc = "returned"
          /\ DeepEq(result, current)
    /\ (Finished /\ merge_type = "present" /\ ExpectedIsEmptyDict /\ current.kind = "map") =>
          /\ pc = "returned"
          /\ DeepEq(result, current)

\* C14 witness: under present a dict with a non-empty nested container came
\* back from a merge with the dict without keys
C14_Witness ==
    /\ pc = "returned"
    /\ merge_type = "present"
    /\ ExpectedIsEmptyDict
    /\ current.kind = "map"
    /\ Len(current.keys) = 2
    /\ \E i \in DOMAIN current.vals :
          IsContainer(current.vals[i]) /\ Len(current.vals[i].vals) > 0
    /\ DeepEq(result, current)

\* a run of the toml_file module has ended
ModuleFinished == Finished /\ result_data.loaded

\* the supplied value equals the content of the file: its data when
\* diff_on_value is set, its text otherwise
SuppliedEqualsFile ==
    IF diff_on_value THEN DeepEq(current, expected)
    ELSE text_of(readlines(dest)) = text_of(toml_dumps(expected))

\* C15: under present, by value and by index, merging a dict x (nested
\* dicts, lists, scalars, None) with x returns x; and a run of the file
\* module with state present whose supplied value equals the content of
\* the file returns and reports changed = false.
C15_SameValueNoChange ==
    /\ (Finished /\ merge_type = "present" /\ ListStrategyGiven
            /\ current.kind = "map" /\ DeepEq(current, expected)) =>
          /\ pc = "returned"
          /\ DeepEq(result, current)
    /\ (ModuleFinished /\ merge_type = "present" /\ SuppliedEqualsFile) =>
          /\ pc = "returned"
          /\ ~changed

\* C15 witness: a module run by lines on a file that holds a nested
\* non-empty container, with the value the file holds, reported no change
C15_Witness ==
    /\ pc = "returned"
    /\ result_data.loaded
    /\ merge_type = "present"
    /\ ~diff_on_value
    /\ SuppliedEqualsFile
    /\ Len(expected.keys) = 2
    /\ \E i \in DOMAIN expected.vals :
          IsContainer(expected.vals[i]) /\ Len(expected.vals[i].vals) > 0
    /\ DeepEq(result, current)
    /\ ~changed

\* the result holds under k what current holds under k
KeptFromCurrent(k) == HasKey(result, k) /\ DeepEq(dict_get(result, k), dict_get(current, k))

\* C16: in a returned merge of two dicts under present or absent: a key of
\* current that expected does not name keeps its value; under present a
\* key that expected holds with None keeps current's value when current has
\* it (a container included) and is not created otherwise; a key that only
\* expected has is in the result only under present and only with the
\* value of expected, which is not None.
C16_UnnamedKeysUntouched ==
    (pc = "returned" /\ merge_type \in {"present", "absent"} /\ BothDicts) =>
        /\ result.kind = "map"
        /\ \A k \in KeysOf(current) \ KeysOf(expected) : KeptFromCurrent(k)
        /\ merge_type = "present" =>
              \A k \in KeysOf(expected) :
                  dict_get(expected, k).kind = "null" =>
                      IF HasKey(current, k) THEN KeptFromCurrent(k) ELSE ~HasKey(result, k)
        /\ \A k \in KeysOf(expected) \ KeysOf(current) :
              HasKey(result, k) =>
                  /\ merge_type = "present"
                  /\ dict_get(expected, k).kind # "null"
                  /\ DeepEq(dict_get(result, k), dict_get(expected, k))

\* C16 witness: under present a non-empty container of current survived a
\* None of expected, beside a key that expected does not name
C16_Witness ==
    /\ pc = "returned"
    /\ merge_type = "present"
    /\ BothDicts
    /\ \E k \in KeysOf(expected) :
          /\ dict_get(expected, k).kind = "null"
          /\ IsContainer(dict_get(current, k))
          /\ Len(dict_get(current, k).vals) > 0
          /\ KeptFromCurrent(k)
    /\ \E k \in KeysOf(current) \ KeysOf(expected) : KeptFromCurrent(k)

\* two dicts or two lists
SameContainerKind(a, b) == IsContainer(a) /\ a.kind = b.kind

\* position j of current is still there after a merge by index: present
\* removes nothing, absent removes a position whose element is not one of
\* two containers and equals expected's
PositionSurvives(j) ==
    \/ merge_type # "absent"
    \/ j > Len(expected.vals)
    \/ IsContainer(current.vals[j]) /\ IsContainer(expected.vals[j])
    \/ ~DeepEq(current.vals[j], expected.vals[j])

\* where the element at position i of current stands in the result of a
\* merge by index
PlaceInResult(i) == Cardinality({j \in 1..i : PositionSurvives(j)})

MergedPositionalDict ==
    get_new_merged_dict(_convert_list_to_dict(current), _convert_list_to_dict(expected))

\* the keys of d stand in ascending order
KeysAscend(d) == \A i, j \in DOMAIN d.keys : i < j => d.keys[i] < d.keys[j]

\* C18: by index, under present and absent, for any two lists whose merge
\* returns: the merged positional dict holds its entries in ascending key
\* order, and the result is the values of that dict in that order, so the
\* elements that survive from current keep their order and the positions
\* added from expected follow them in increasing position.
C18_PositionalOrder ==
    (pc = "returned" /\ merge_type \in {"present", "absent"}
        /\ list_diff_type = "index" /\ BothLists) =>
        /\ MergedPositionalDict.kind = "map"
        /\ KeysAscend(MergedPositionalDict)
        /\ result.kind = "seq"
        /\ Len(result.vals) = Cardinality(KeysOf(MergedPositionalDict))
        /\ DeepEq(result, _convert_dict_to_list(MergedPositionalDict))

\* C18 witness: under present by index a position was added from expected
\* after the positions of a non-empty current
C18_Witness ==
    /\ pc = "returned"
    /\ merge_type = "present"
    /\ list_diff_type = "index"
    /\ BothLists
    /\ Len(current.vals) > 0
    /\ Len(result.vals) > Len(current.vals)
    /\ \E k \in KeysOf(MergedPositionalDict) : k >= Len(current.vals)

\* the call raised TypeError("Unexpected merge_type") or
\* TypeError("Unexpected list_diff_type")
RaisedTypeError == pc = "raised" /\ last_error = "TypeError"

\* C19: a call raises TypeError only if merge_type or list_diff_type holds
\* a value outside its enumeration: with both inside, no call raises it,
\* whatever the operands and their nesting; and under identic no call
\* raises it, whatever list_diff_type holds.
C19_TypeErrorOnlyIfUnvalidated ==
    /\ RaisedTypeError => (merge_type \notin MergeTypes \/ list_diff_type \notin ListDiffTypes)
    /\ merge_type = "identic" => ~RaisedTypeError

\* C19 witness: with a list_diff_type outside the enumeration, a merge of
\* two dicts raised TypeError on a pair of nested lists
C19_Witness ==
    /\ RaisedTypeError
    /\ list_diff_type \notin ListDiffTypes
    /\ merge_type = "absent"
    /\ BothDicts
    /\ \E k \in KeysOf(current) \cap KeysOf(expected) :
          dict_get(current, k).kind = "seq" /\ dict_get(expected, k).kind = "seq"

\* the file at path is missing or holds white space only
FileIsBlank == ~dest.exists \/ strip_is_empty(dest.lines)

CurrentIsEmptyDict == current.kind = "map" /\ Len(current.keys) = 0

\* the keys that the supplied value holds with something else than None
SuppliedKeys == {k \in KeysOf(expected) : dict_get(expected, k).kind # "null"}

\* C20 as claimed: a run of the toml_file module on a missing file or on a
\* file of white space only merges the supplied value with the empty dict,
\* whatever diff_on_value is; with state present the merge returns a result
\* equal to the supplied value, whatever dict is supplied, and the file is
\* reported as changed.
C20_BlankFileTakesValue ==
    (ModuleFinished /\ FileIsBlank) =>
        /\ CurrentIsEmptyDict
        /\ merge_type = "present" =>
              /\ pc = "returned"
              /\ DeepEq(result, expected)
              /\ changed

\* C20 amended: a run of the toml_file module on a missing file or on a
\* file of white space only merges the supplied value with the empty dict,
\* whatever diff_on_value is; with state present the merge returns the
\* supplied value without the keys it holds with None, and the file is
\* reported as changed when the supplied value holds a key with something
\* else than None.
C20_BlankFileTakesNonNull ==
    (ModuleFinished /\ FileIsBlank) =>
        /\ CurrentIsEmptyDict
        /\ merge_type = "present" =>
              /\ pc = "returned"
              /\ result.kind = "map"
              /\ KeysOf(result) = SuppliedKeys
              /\ \A k \in SuppliedKeys : DeepEq(dict_get(result, k), dict_get(expected, k))
              /\ SuppliedKeys # {} => changed

\* C20 witness: by lines, a file of three lines of white space took a
\* supplied value of two keys, one of them holding None, and was reported
\* as changed
C20_Witness ==
    /\ pc = "returned"
    /\ result_data.loaded
    /\ merge_type = "present"
    /\ ~diff_on_value
    /\ dest.exists
    /\ Len(dest.lines) = 3
    /\ FileIsBlank
    /\ Len(expected.keys) = 2
    /\ Cardinality(SuppliedKeys) = 1
    /\ Len(result.keys) = 1
    /\ changed

\* a dict without keys or a list without elements
IsEmptyContainer(v) == IsContainer(v) /\ Len(v.vals) = 0

\* both operands hold a container under key k
ContainerPairAt(k) ==
    IsContainer(dict_get(current, k)) /\ IsContainer(dict_get(expected, k))

\* both operands hold a container at position i
ContainerPairAtPosition(i) ==
    /\ i \in DOMAIN current.vals \cap DOMAIN expected.vals
    /\ IsContainer(current.vals[i])
    /\ IsContainer(expected.vals[i])

\* the call merged a value with an equal one: merge(x, x)
MergedWithItself == DeepEq(current, expected)

\* x holds a container as one of its values or elements
HoldsContainer(x) == \E i \in DOMAIN x.vals : IsContainer(x.vals[i])

====
